---- MODULE Spec2Model ----
(***************************************************************************)
(* component-oauth-card: the request decoder (broker.rs parse_input), the  *)
(* flow engine (logic.rs handle and its five modes) and the boundary       *)
(* (lib.rs handle_message), run against a broker whose answers are chosen  *)
(* by the environment.                                                     *)
(*                                                                         *)
(* Option<T> is a sequence: <<>> is None, <<v>> is Some(v).                *)
(* Result<T, E> is a record: [ok |-> TRUE, v |-> value] or                 *)
(* [ok |-> FALSE, e |-> error].                                            *)
(* A serde_json Value is a tagged record (JNull, JStr, JBool, JNum, JArr,  *)
(* JObj); a JSON object is a function from its keys to Values.             *)
(***************************************************************************)
EXTENDS Naturals, Sequences, FiniteSets, TLC

VARIABLES
    pc,        \* where the invocation stands: "idle" or the broker call it waits on
    message,   \* the text handed to handle_message (its parameter input)
    origin,    \* <<>>, or <<[parent, data]>> when message is a card's PostBack data
    parsed,    \* Result of parse_input(message); <<>> before the first invocation
    uuid,      \* <<>>, or <<u>> once Uuid::new_v4() was drawn in this invocation
    calls,     \* the broker calls of this invocation, in order: [op, args]
    rets,      \* the broker's answers to them, in order
    result,    \* <<>>, or <<r>>: r the Result of parse_input(..).and_then(handle)
    response,  \* <<>>, or <<text>>: the String handle_message returned
    peer       \* a second invocation, in flight at the same time: a record of
               \* its own pc, message, parsed, uuid, calls, rets, result, response

vars == <<pc, message, origin, parsed, uuid, calls, rets, result, response, peer>>

----------------------------------------------------------------------------
(* Option and Result *)

None == <<>>

Some(x) == <<x>>

Ok(x) == [ok |-> TRUE, v |-> x]

Err(x) == [ok |-> FALSE, e |-> x]

----------------------------------------------------------------------------
(* serde_json::Value *)

JNull == [t |-> "null"]

JStr(s) == [t |-> "str", s |-> s]

JBool(b) == [t |-> "bool", b |-> b]

JNum(n) == [t |-> "num", n |-> n]

JArr(a) == [t |-> "arr", a |-> a]

JObj(o) == [t |-> "obj", o |-> o]

\* Option<String> as json!() and the derived Serialize write it
JOptStr(o) == IF o = None THEN JNull ELSE JStr(o[1])

\* Option<u64> as json!() and the derived Serialize write it
JOptNum(o) == IF o = None THEN JNull ELSE JNum(o[1])

\* Vec<String> as a JSON array of strings
JStrArr(ss) == JArr([i \in 1..Len(ss) |-> JStr(ss[i])])

\* the object o without the keys whose skip_serializing_if holds
WithoutKeys(o, skipped) == [k \in (DOMAIN o) \ skipped |-> o[k]]

----------------------------------------------------------------------------
(* OAuthCardError and its Display *)

Invalid(msg) == [kind |-> "Invalid", msg |-> msg]

Parse(msg) == [kind |-> "Parse", msg |-> msg]

Unsupported(msg) == [kind |-> "Unsupported", msg |-> msg]

ErrToString(err) ==
    CASE err.kind = "Invalid" -> "invalid input: " \o err.msg
      [] err.kind = "Parse" -> "parse error: " \o err.msg
      [] err.kind = "Unsupported" -> "unsupported: " \o err.msg

----------------------------------------------------------------------------
(* OAuthCardMode and OAuthStatus, with their kebab-case encodings *)

Modes == {"StatusCard", "StartSignIn", "CompleteSignIn", "EnsureToken", "Disconnect"}

ModeName(m) ==
    CASE m = "StatusCard" -> "status-card"
      [] m = "StartSignIn" -> "start-sign-in"
      [] m = "CompleteSignIn" -> "complete-sign-in"
      [] m = "EnsureToken" -> "ensure-token"
      [] m = "Disconnect" -> "disconnect"

ModeOfName(s) == CHOOSE m \in Modes : ModeName(m) = s

ModeNames == {ModeName(m) : m \in Modes}

\* StatusName with rename_all = "snake_case" in place of "kebab-case"
StatusName_snake_case(s) ==
    CASE s = "Ok" -> "ok"
      [] s = "NeedsSignIn" -> "needs_sign_in"
      [] s = "Error" -> "error"

StatusName(s) ==
    CASE s = "Ok" -> "ok"
      [] s = "NeedsSignIn" -> "needs-sign-in"
      [] s = "Error" -> "error"

----------------------------------------------------------------------------
(* Text.  A text is [pad, body]: body is <<>> when the characters are not a  *)
(* JSON document and <<v>> when they spell the Value v; pad says that the    *)
(* document is surrounded by white space that str::trim removes and that     *)
(* JSON does not accept (U+2003, say).                                       *)

Text(v) == [pad |-> FALSE, body |-> Some(v)]

\* str::trim
Trim(text) == [text EXCEPT !.pad = FALSE]

\* Value::to_string
ValueToString(v) == Text(v)

----------------------------------------------------------------------------
(* Request Decoder: serde's derived Deserialize for OAuthCardInput.  The     *)
(* first failing field, in the struct's order, gives the message.            *)

ReqStrErr(o, k) ==
    IF k \notin DOMAIN o THEN Some("missing field " \o k \o "")
    ELSE IF o[k].t # "str" THEN Some("invalid type for " \o k \o ", expected a string")
    ELSE None

ModeErr(o) ==
    IF "mode" \notin DOMAIN o THEN Some("missing field mode")
    ELSE IF o["mode"].t # "str" THEN Some("invalid type for mode, expected a string")
    ELSE IF o["mode"].s \notin ModeNames THEN Some("unknown variant " \o o["mode"].s \o "")
    ELSE None

OptStrErr(o, k) ==
    IF k \in DOMAIN o /\ o[k].t \notin {"null", "str"}
    THEN Some("invalid type for " \o k \o ", expected a string")
    ELSE None

ScopesErr(o) ==
    IF "scopes" \notin DOMAIN o THEN None
    ELSE IF o["scopes"].t # "arr" THEN Some("invalid type for scopes, expected a sequence")
    ELSE IF \E i \in DOMAIN o["scopes"].a : o["scopes"].a[i].t # "str"
         THEN Some("invalid type for scopes, expected a string")
    ELSE None

BoolErr(o, k) ==
    IF k \in DOMAIN o /\ o[k].t # "bool"
    THEN Some("invalid type for " \o k \o ", expected a boolean")
    ELSE None

\* the checks in the order of the struct fields (model.rs 113-133)
FieldErrs(o) ==
    << ModeErr(o), ReqStrErr(o, "provider_id"), ReqStrErr(o, "subject"),
       OptStrErr(o, "tenant"), OptStrErr(o, "team"), ScopesErr(o),
       OptStrErr(o, "state_id"), OptStrErr(o, "auth_code"),
       BoolErr(o, "allow_auto_sign_in"), OptStrErr(o, "redirect_path") >>

\* Option<String>: a missing key and null are None
OptStrField(o, k) == IF k \in DOMAIN o /\ o[k].t = "str" THEN Some(o[k].s) ELSE None

\* Option<Value>: a missing key and null are None, anything else is kept
OptValueField(o, k) == IF k \in DOMAIN o /\ o[k].t # "null" THEN Some(o[k]) ELSE None

\* the struct OAuthCardInput read from the object o, or serde's error message;
\* keys the struct does not name are ignored
Deserialize(o) ==
    LET errs == FieldErrs(o)
        bad == {i \in DOMAIN errs : errs[i] # None}
    IN IF bad # {}
       THEN Err(errs[CHOOSE i \in bad : \A j \in bad : i <= j][1])
       ELSE Ok([ mode |-> ModeOfName(o["mode"].s),
                 provider_id |-> o["provider_id"].s,
                 subject |-> o["subject"].s,
                 tenant |-> OptStrField(o, "tenant"),
                 team |-> OptStrField(o, "team"),
                 scopes |-> IF "scopes" \in DOMAIN o
                            THEN [i \in DOMAIN o["scopes"].a |-> o["scopes"].a[i].s]
                            ELSE <<>>,
                 state_id |-> OptStrField(o, "state_id"),
                 auth_code |-> OptStrField(o, "auth_code"),
                 allow_auto_sign_in |-> IF "allow_auto_sign_in" \in DOMAIN o
                                        THEN o["allow_auto_sign_in"].b
                                        ELSE FALSE,
                 redirect_path |-> OptStrField(o, "redirect_path"),
                 extra_json |-> OptValueField(o, "extra_json") ])

\* serde_json::from_str::<OAuthCardInput>
FromStr(text) ==
    IF text.pad \/ text.body = None THEN Err("expected value at line 1 column 1")
    ELSE IF text.body[1].t # "obj" THEN Err("invalid type, expected struct OAuthCardInput")
    ELSE Deserialize(text.body[1].o)

\* broker.rs parse_input
parse_input(text) ==
    LET r == FromStr(Trim(text))
    IN IF r.ok THEN r ELSE Err(Parse("input json: " \o r.e))

----------------------------------------------------------------------------
(* Flow Engine: the cards (logic.rs 187-351)                                 *)

\* str::to_ascii_lowercase, on the identifiers that carry upper-case letters
to_ascii_lowercase(id) ==
    CASE id = "MSGraph" -> "msgraph"
      [] id = "GitHub" -> "github"
      [] OTHER -> id

provider_from_id(id) ==
    LET low == to_ascii_lowercase(id)
    IN CASE low \in {"microsoft", "msgraph", "m365"} -> "Microsoft"
         [] low = "google" -> "Google"
         [] low = "github" -> "Github"
         [] OTHER -> "Custom"

base_card(kind, title, text) ==
    [ kind |-> kind, title |-> title, text |-> text, footer |-> None,
      images |-> <<>>, actions |-> <<>>, allow_markdown |-> TRUE,
      adaptive |-> None, oauth |-> None ]

\* action with the scopes left out of the data
action_without_scopes(title, mode, input, state_id) ==
    [ variant |-> "PostBack",
      title |-> title,
      data |-> JObj([ mode |-> JStr(ModeName(mode)),
                      provider_id |-> JStr(input.provider_id),
                      subject |-> JStr(input.subject),
                      state_id |-> JOptStr(state_id) ]) ]

\* Action::PostBack built by action()
action(title, mode, input, state_id) ==
    [ variant |-> "PostBack",
      title |-> title,
      data |-> JObj([ mode |-> JStr(ModeName(mode)),
                      provider_id |-> JStr(input.provider_id),
                      subject |-> JStr(input.subject),
                      state_id |-> JOptStr(state_id),
                      scopes |-> JStrArr(input.scopes) ]) ]

OpenUrl(title, url) == [variant |-> "OpenUrl", title |-> title, url |-> url]

\* the " (team {team})" part of a card's text
TeamSuffix(input) ==
    IF input.team = None THEN "" ELSE " (team " \o input.team[1] \o ")"

OauthCard(provider, scopes, prompt, start_url, metadata) ==
    [ provider |-> provider, scopes |-> scopes, resource |-> None,
      prompt |-> prompt, start_url |-> start_url, connection_name |-> None,
      metadata |-> metadata ]

sign_in_card(input, state_id, url) ==
    LET card == base_card("Oauth",
                    Some("Connect " \o input.provider_id \o " account"),
                    Some("Click Connect to sign in as " \o input.subject
                         \o TeamSuffix(input) \o "."))
        open == IF url # "" THEN <<OpenUrl("Connect", url)>> ELSE <<>>
    IN [ card EXCEPT
           !.actions = open \o <<action("Continue", "CompleteSignIn", input, Some(state_id))>>,
           !.oauth = Some(OauthCard(provider_from_id(input.provider_id), input.scopes,
                          Some("Consent"),
                          IF url = "" THEN None ELSE Some(url),
                          Some(JObj([ state_id |-> JStr(state_id),
                                      provider_id |-> JStr(input.provider_id),
                                      subject |-> JStr(input.subject) ])))) ]

\* u is what Uuid::new_v4().to_string() yields when it is called
connect_prompt_card(input, existing_state, u) ==
    LET state_id == IF existing_state = None THEN u ELSE existing_state[1]
    IN sign_in_card(input, state_id, "")

connected_card(input, token, headline) ==
    LET card == base_card("Oauth",
                    Some(headline \o ": " \o input.provider_id),
                    Some("Signed in as " \o input.subject \o TeamSuffix(input) \o "."))
    IN [ card EXCEPT
           !.actions = << action("Refresh token", "EnsureToken", input, None),
                          action("Use different account", "StartSignIn", input, None),
                          action("Disconnect", "Disconnect", input, None) >>,
           !.oauth = Some(OauthCard(provider_from_id(input.provider_id), input.scopes,
                          None, None,
                          Some(JObj([ expires_at |-> JOptNum(token.expires_at),
                                      provider_id |-> JStr(input.provider_id),
                                      subject |-> JStr(input.subject) ])))) ]

\* redirect_path that ignores the request's value
redirect_path_default_only(input) == "/oauth/callback/" \o input.provider_id

redirect_path(input) ==
    IF input.redirect_path = None
    THEN "/oauth/callback/" \o input.provider_id
    ELSE input.redirect_path[1]

\* token.extra["email"] when extra is an object holding a string there
TokenEmail(token) ==
    IF /\ token.extra # None
       /\ token.extra[1].t = "obj"
       /\ "email" \in DOMAIN token.extra[1].o
       /\ token.extra[1].o["email"].t = "str"
    THEN Some(token.extra[1].o["email"].s)
    ELSE None

auth_context(input, token) ==
    [ provider_id |-> input.provider_id, subject |-> input.subject,
      email |-> TokenEmail(token), tenant |-> input.tenant, team |-> input.team,
      scopes |-> input.scopes, expires_at |-> token.expires_at ]

\* auth_header that ignores token_type and always writes Bearer
auth_header_always_bearer(token) ==
    [headers |-> << <<"Authorization", "Bearer " \o token.access_token>> >>]

auth_header(token) ==
    LET prefix == IF token.token_type = None THEN "Bearer" ELSE token.token_type[1]
    IN [headers |-> << <<"Authorization", prefix \o " " \o token.access_token>> >>]

OAuthCardOutput(status, card, ctx, header, state_id, error) ==
    [ status |-> status, card |-> card, auth_context |-> ctx,
      auth_header |-> header, state_id |-> state_id, error |-> error ]

----------------------------------------------------------------------------
(* Flow Engine: the five modes (logic.rs 11-185).  A mode is a function of   *)
(* the request, of the broker's answers so far (rs) and of the id new_v4     *)
(* yields (u): it either makes its next broker call or returns.  gen says    *)
(* whether new_v4 has been called by then.                                   *)

Call(op, args, gen) == [k |-> "call", op |-> op, args |-> args, gen |-> gen]

Done(res, gen) == [k |-> "done", res |-> res, gen |-> gen]

GetTokenArgs(input) ==
    [provider_id |-> input.provider_id, subject |-> input.subject, scopes |-> input.scopes]

GetConsentUrlArgs(input) ==
    [ provider_id |-> input.provider_id, subject |-> input.subject,
      scopes |-> input.scopes, redirect_path |-> redirect_path(input),
      extra_json |-> IF input.extra_json = None THEN None
                     ELSE Some(ValueToString(input.extra_json[1])) ]

ExchangeCodeArgs(input, code) ==
    [ provider_id |-> input.provider_id, subject |-> input.subject,
      code |-> code, redirect_path |-> redirect_path(input) ]

\* StateIdOrNew that keeps the generated id in a static all invocations share
StateIdOrNew_shared(input, u) ==
    IF input.state_id # None THEN input.state_id[1]
    ELSE IF peer.uuid # None THEN peer.uuid[1]
    ELSE u

\* StateIdOrNew that never reuses the request's state_id
StateIdOrNew_always_new(input, u) == u

\* input.state_id.clone().unwrap_or_else(|| Uuid::new_v4().to_string())
StateIdOrNew(input, u) == IF input.state_id = None THEN u ELSE input.state_id[1]

\* unwrap_or_default showing the error's message where the URL goes
unwrap_or_default_message(r) == IF r.ok THEN r.v ELSE r.e.msg

\* Result<String, _>::unwrap_or_default
unwrap_or_default(r) == IF r.ok THEN r.v ELSE ""

\* propagate with a map_err that rewraps the broker's error
propagate_rewrapped(r) == Done(Err(Unsupported(r.e.msg)), FALSE)

\* the ? operator on a failed broker call: the function returns that error
propagate(r) == Done(Err(r.e), FALSE)

status_card_connected(input, token) ==
    OAuthCardOutput("Ok", Some(connected_card(input, token, "Connected")),
                    Some(auth_context(input, token)), Some(auth_header(token)),
                    None, None)

\* status_card_prompt passing the request's state_id to connect_prompt_card
status_card_prompt_reusing_state(input, u) ==
    OAuthCardOutput("NeedsSignIn", Some(connect_prompt_card(input, input.state_id, u)),
                    None, None, None, None)

\* status_card_prompt returning the card's state_id at the top level too
status_card_prompt_with_state(input, u) ==
    OAuthCardOutput("NeedsSignIn", Some(connect_prompt_card(input, None, u)),
                    None, None, Some(u), None)

status_card_prompt(input, u) ==
    OAuthCardOutput("NeedsSignIn", Some(connect_prompt_card(input, None, u)),
                    None, None, None, None)

\* status_card_no_token fetching a consent URL as ensure_token does
status_card_no_token_with_consent(input, rs, u) ==
    IF Len(rs) = 1 THEN Call("get_consent_url", GetConsentUrlArgs(input), TRUE)
    ELSE Done(Ok(OAuthCardOutput("NeedsSignIn",
                    Some(sign_in_card(input, u, unwrap_or_default(rs[2]))),
                    None, None, None, None)), TRUE)

\* the else branch of status_card: rs holds get_token's answer, no token
status_card_no_token(input, rs, u) == Done(Ok(status_card_prompt(input, u)), TRUE)

status_card(input, rs, u) ==
    IF Len(rs) = 0 THEN Call("get_token", GetTokenArgs(input), FALSE)
    ELSE IF ~rs[1].ok THEN propagate(rs[1])
    ELSE IF rs[1].v # None THEN Done(Ok(status_card_connected(input, rs[1].v[1])), FALSE)
    ELSE status_card_no_token(input, rs, u)

start_sign_in_output(input, state_id, consent_url) ==
    OAuthCardOutput("Ok", Some(sign_in_card(input, state_id, consent_url)),
                    None, None, Some(state_id), None)

start_sign_in(input, rs, u) ==
    LET state_id == StateIdOrNew(input, u)
        gen == input.state_id = None
    IN IF Len(rs) = 0 THEN Call("get_consent_url", GetConsentUrlArgs(input), gen)
       ELSE Done(Ok(start_sign_in_output(input, state_id, unwrap_or_default(rs[1]))), gen)

\* complete_sign_in_output echoing the request's state_id at the top level
complete_sign_in_output_echoing_state(input, token) ==
    OAuthCardOutput("Ok", Some(connected_card(input, token, "Connected")),
                    Some(auth_context(input, token)), Some(auth_header(token)),
                    input.state_id, None)

complete_sign_in_output(input, token) ==
    OAuthCardOutput("Ok", Some(connected_card(input, token, "Connected")),
                    Some(auth_context(input, token)), Some(auth_header(token)),
                    None, None)

\* require_auth_code with unwrap_or_default in place of ok_or_else
require_auth_code_defaulted(input) ==
    IF input.auth_code = None THEN Ok("") ELSE Ok(input.auth_code[1])

\* input.auth_code.as_ref().ok_or_else(|| Invalid(..))
require_auth_code(input) ==
    IF input.auth_code = None
    THEN Err(Invalid("auth_code is required to complete sign-in"))
    ELSE Ok(input.auth_code[1])

complete_sign_in(input, rs) ==
    LET code == require_auth_code(input)
    IN IF ~code.ok THEN Done(Err(code.e), FALSE)
    ELSE IF Len(rs) = 0
    THEN Call("exchange_code", ExchangeCodeArgs(input, code.v), FALSE)
    ELSE IF ~rs[1].ok THEN propagate(rs[1])
    ELSE Done(Ok(complete_sign_in_output(input, rs[1].v)), FALSE)

\* ensure_token_connected returning the connected card as status_card does
ensure_token_connected_with_card(input, token) ==
    OAuthCardOutput("Ok", Some(connected_card(input, token, "Connected")),
                    Some(auth_context(input, token)), Some(auth_header(token)),
                    None, None)

ensure_token_connected(input, token) ==
    OAuthCardOutput("Ok", None, Some(auth_context(input, token)),
                    Some(auth_header(token)), None, None)

\* ensure_token_prompt that leaves the state_id inside the card only
ensure_token_prompt_without_state(input, state_id, consent_url) ==
    OAuthCardOutput("NeedsSignIn", Some(sign_in_card(input, state_id, consent_url)),
                    None, None, None, None)

ensure_token_prompt(input, state_id, consent_url) ==
    OAuthCardOutput("NeedsSignIn", Some(sign_in_card(input, state_id, consent_url)),
                    None, None, Some(state_id), None)

ensure_token_declined(input) ==
    OAuthCardOutput("NeedsSignIn", None, None, None, None, None)

ensure_token(input, rs, u) ==
    IF Len(rs) = 0 THEN Call("get_token", GetTokenArgs(input), FALSE)
    ELSE IF ~rs[1].ok THEN propagate(rs[1])
    ELSE IF rs[1].v # None THEN Done(Ok(ensure_token_connected(input, rs[1].v[1])), FALSE)
    ELSE IF input.allow_auto_sign_in
    THEN LET state_id == StateIdOrNew(input, u)
             gen == input.state_id = None
         IN IF Len(rs) = 1 THEN Call("get_consent_url", GetConsentUrlArgs(input), gen)
            ELSE Done(Ok(ensure_token_prompt(input, state_id, unwrap_or_default(rs[2]))), gen)
    ELSE Done(Ok(ensure_token_declined(input)), FALSE)

\* disconnect_card whose Reconnect action asks for the token again
disconnect_card_reconnect_ensure(input) ==
    LET card == base_card("Oauth",
                    Some("Disconnected from " \o input.provider_id),
                    Some("You can reconnect this account at any time."))
    IN OAuthCardOutput("Ok",
           Some([ card EXCEPT
                    !.actions = <<action("Reconnect", "EnsureToken", input, None)>>,
                    !.oauth = Some(OauthCard(provider_from_id(input.provider_id),
                                   input.scopes, None, None,
                                   Some(JObj([ provider_id |-> JStr(input.provider_id),
                                               subject |-> JStr(input.subject) ])))) ]),
           None, None, None, None)

disconnect_card(input) ==
    LET card == base_card("Oauth",
                    Some("Disconnected from " \o input.provider_id),
                    Some("You can reconnect this account at any time."))
    IN OAuthCardOutput("Ok",
           Some([ card EXCEPT
                    !.actions = <<action("Reconnect", "StartSignIn", input, None)>>,
                    !.oauth = Some(OauthCard(provider_from_id(input.provider_id),
                                   input.scopes, None, None,
                                   Some(JObj([ provider_id |-> JStr(input.provider_id),
                                               subject |-> JStr(input.subject) ])))) ]),
           None, None, None, None)

handle(input, rs, u) ==
    CASE input.mode = "StatusCard" -> status_card(input, rs, u)
      [] input.mode = "StartSignIn" -> start_sign_in(input, rs, u)
      [] input.mode = "CompleteSignIn" -> complete_sign_in(input, rs)
      [] input.mode = "EnsureToken" -> ensure_token(input, rs, u)
      [] input.mode = "Disconnect" -> Done(Ok(disconnect_card(input)), FALSE)

----------------------------------------------------------------------------
(* The derived Serialize of the response types (model.rs 8-177)              *)

\* rename_all = "snake_case" on the unit variants used here
SnakeName(v) ==
    CASE v = "Standard" -> "standard"
      [] v = "Oauth" -> "oauth"
      [] v = "Microsoft" -> "microsoft"
      [] v = "Google" -> "google"
      [] v = "Github" -> "github"
      [] v = "Custom" -> "custom"
      [] v = "Consent" -> "consent"
      [] v = "OpenUrl" -> "open_url"
      [] v = "PostBack" -> "post_back"

ActionJson(a) ==
    IF a.variant = "OpenUrl"
    THEN JObj([ type |-> JStr(SnakeName(a.variant)), title |-> JStr(a.title),
                url |-> JStr(a.url) ])
    ELSE JObj([ type |-> JStr(SnakeName(a.variant)), title |-> JStr(a.title),
                data |-> a.data ])

OauthCardJson(o) ==
    JObj(WithoutKeys(
        [ provider |-> JStr(SnakeName(o.provider)),
          scopes |-> JStrArr(o.scopes),
          resource |-> JOptStr(o.resource),
          prompt |-> IF o.prompt = None THEN JNull ELSE JStr(SnakeName(o.prompt[1])),
          start_url |-> JOptStr(o.start_url),
          connection_name |-> JOptStr(o.connection_name),
          metadata |-> IF o.metadata = None THEN JNull ELSE o.metadata[1] ],
        {k \in {"resource", "prompt", "start_url", "connection_name", "metadata"} :
            o[k] = None}
        \cup (IF o.scopes = <<>> THEN {"scopes"} ELSE {})))

MessageCardJson(c) ==
    JObj(WithoutKeys(
        [ kind |-> JStr(SnakeName(c.kind)),
          title |-> JOptStr(c.title),
          text |-> JOptStr(c.text),
          footer |-> JOptStr(c.footer),
          images |-> JArr(c.images),
          actions |-> JArr([i \in DOMAIN c.actions |-> ActionJson(c.actions[i])]),
          allow_markdown |-> JBool(c.allow_markdown),
          adaptive |-> IF c.adaptive = None THEN JNull ELSE c.adaptive[1],
          oauth |-> IF c.oauth = None THEN JNull ELSE OauthCardJson(c.oauth[1]) ],
        {k \in {"title", "text", "footer", "adaptive", "oauth"} : c[k] = None}
        \cup {k \in {"images", "actions"} : c[k] = <<>>}))

AuthContextJson(ctx) ==
    JObj([ provider_id |-> JStr(ctx.provider_id), subject |-> JStr(ctx.subject),
           email |-> JOptStr(ctx.email), tenant |-> JOptStr(ctx.tenant),
           team |-> JOptStr(ctx.team), scopes |-> JStrArr(ctx.scopes),
           expires_at |-> JOptNum(ctx.expires_at) ])

AuthHeaderJson(h) ==
    JObj([ headers |-> JArr([i \in DOMAIN h.headers |->
                               JArr(<<JStr(h.headers[i][1]), JStr(h.headers[i][2])>>)]) ])

OAuthCardOutputJson(out) ==
    JObj([ status |-> JStr(StatusName(out.status)),
           card |-> IF out.card = None THEN JNull ELSE MessageCardJson(out.card[1]),
           auth_context |-> IF out.auth_context = None THEN JNull
                            ELSE AuthContextJson(out.auth_context[1]),
           auth_header |-> IF out.auth_header = None THEN JNull
                           ELSE AuthHeaderJson(out.auth_header[1]),
           state_id |-> JOptStr(out.state_id),
           error |-> JOptStr(out.error) ])

\* serde_json::to_string(&response): no value of these types fails to serialize
to_string(out) == Ok(ValueToString(OAuthCardOutputJson(out)))

----------------------------------------------------------------------------
(* The boundary (lib.rs 140-161)                                             *)

\* ErrorOutput built on OAuthCardOutput::default(), whose status is Ok
ErrorOutput_default_status(err) ==
    OAuthCardOutput("Ok", None, None, None, None, Some(ErrToString(err)))

\* the closure of unwrap_or_else at lib.rs 145-152
ErrorOutput(err) ==
    OAuthCardOutput("Error", None, None, None, None, Some(ErrToString(err)))

\* what handle_message returns for the Result res of
\* parse_input(input).and_then(|parsed| handle(&backend, parsed))
handle_message_return(res) ==
    LET out == IF res.ok THEN res.v ELSE ErrorOutput(res.e)
        s == to_string(out)
    IN IF s.ok THEN s.v
       ELSE ValueToString(JObj([ status |-> JStr("error"),
                                 error |-> JStr("serialization failure: " \o s.e) ]))

----------------------------------------------------------------------------
(* The environment: the texts a caller sends, the ids new_v4 yields and the  *)
(* broker's answers.                                                         *)

\* how many different ids Uuid::new_v4 can yield
MaxUuids == 2

Uuids == {"uuid-" \o ToString(i) : i \in 1..MaxUuids}

\* new_v4 yields an id that is not the one the request carries
FreshUuids(p) ==
    Uuids \ (IF p.ok /\ p.v.state_id # None THEN {p.v.state_id[1]} ELSE {})

\* per key of the request object: <<>> (the key is missing) or <<its value>>
FieldChoices ==
    [ mode : {None} \cup {Some(JStr(n)) : n \in ModeNames \cup {"bogus"}},
      provider_id : {None, Some(JStr("")), Some(JStr("msgraph"))},
      subject : {None, Some(JStr("")), Some(JStr("user-1"))},
      tenant : {None, Some(JStr("tenant-1"))},
      team : {None, Some(JStr("team-1"))},
      scopes : {None, Some(JStrArr(<<"openid">>))},
      state_id : {None, Some(JStr("state-1"))},
      auth_code : {None, Some(JStr("code-123"))},
      allow_auto_sign_in : {None, Some(JBool(TRUE))},
      redirect_path : {None, Some(JStr("/cb"))},
      extra_json : {None, Some(JObj([prompt |-> JStr("login")]))} ]

ObjectOf(c) == [k \in {f \in DOMAIN c : c[f] # None} |-> c[k][1]]

Messages ==
    {[pad |-> p, body |-> Some(JObj(ObjectOf(c)))] : p \in BOOLEAN, c \in FieldChoices}
    \cup {[pad |-> p, body |-> b] : p \in BOOLEAN, b \in {None, Some(JStr("status-card"))}}

TokenSets ==
    { [ access_token |-> "token123", refresh_token |-> None, expires_at |-> Some(123),
        token_type |-> None,
        extra |-> Some(JObj([email |-> JStr("user@example.com")])) ],
      [ access_token |-> "tok-2", refresh_token |-> Some("refresh"), expires_at |-> None,
        token_type |-> Some("MAC"), extra |-> None ] }

\* OAuthBackend::get_token: Result<Option<TokenSet>, OAuthCardError>
GetTokenAnswers ==
    {Ok(None)} \cup {Ok(Some(t)) : t \in TokenSets}
    \cup {Err(Parse("token json: EOF while parsing a value"))}

\* OAuthBackend::get_consent_url: Result<String, OAuthCardError>
GetConsentUrlAnswers ==
    {Ok(""), Ok("https://consent/start"), Err(Unsupported("consent url unavailable"))}

\* OAuthBackend::exchange_code: Result<TokenSet, OAuthCardError>
ExchangeCodeAnswers ==
    {Ok(t) : t \in TokenSets}
    \cup { Err(Parse("exchange json: EOF while parsing a value")),
           Err(Unsupported("exchange_code unavailable on native test backend")) }

----------------------------------------------------------------------------
(* The invocation, from handle_message(operation, input) to its return,      *)
(* stopping at each broker call until the broker answers.                    *)

\* the locals of an invocation that has not started
IdleInvocation ==
    [ pc |-> "idle", message |-> Text(JNull), parsed |-> None, uuid |-> None,
      calls |-> <<>>, rets |-> <<>>, result |-> None, response |-> None ]

Init ==
    /\ pc = "idle"
    /\ message = Text(JNull)
    /\ origin = None
    /\ parsed = None
    /\ uuid = None
    /\ calls = <<>>
    /\ rets = <<>>
    /\ result = None
    /\ response = None
    /\ peer = IdleInvocation

\* handle_message on a text whose decoding is p, with the broker's answers rs so
\* far: where it stands then (at its next broker call, or returned), the call it
\* makes, the id it drew, the Result of and_then and the text it returns
handle_message(p, rs, u) ==
    IF ~p.ok
    THEN [ pc |-> "idle", call |-> None, uuid |-> None, result |-> Some(Err(p.e)),
           response |-> Some(handle_message_return(Err(p.e))) ]
    ELSE LET st == handle(p.v, rs, u)
         IN IF st.k = "call"
            THEN [ pc |-> st.op, call |-> Some([op |-> st.op, args |-> st.args]),
                   uuid |-> IF st.gen THEN Some(u) ELSE None,
                   result |-> None, response |-> None ]
            ELSE [ pc |-> "idle", call |-> None,
                   uuid |-> IF st.gen THEN Some(u) ELSE None,
                   result |-> Some(st.res),
                   response |-> Some(handle_message_return(st.res)) ]

\* the invocation on msg, whose decoding is p, runs up to its next broker call
\* or its return; cs and rs are its broker calls and their answers so far
Advance(msg, org, p, cs, rs, u) ==
    LET next == handle_message(p, rs, u)
    IN /\ message' = msg
       /\ origin' = org
       /\ parsed' = Some(p)
       /\ rets' = rs
       /\ pc' = next.pc
       /\ calls' = cs \o next.call
       /\ uuid' = next.uuid
       /\ result' = next.result
       /\ response' = next.response
       /\ peer' = peer

\* the host invokes the component with a text of its own
Invoke(msg) ==
    /\ LET p == parse_input(msg)
       IN \E u \in FreshUuids(p) : Advance(msg, None, p, <<>>, <<>>, u)

\* the PostBack actions of the card in the response text
ResponseActions ==
    IF response = None THEN <<>>
    ELSE LET o == response[1].body[1].o
         IN IF o["card"].t = "obj" /\ "actions" \in DOMAIN o["card"].o
            THEN o["card"].o["actions"].a
            ELSE <<>>

\* the caller submits the data of the i-th action of the card, unchanged
Resubmit(i) ==
    /\ ResponseActions[i].o["type"] = JStr("post_back")
    /\ LET data == ResponseActions[i].o["data"]
           msg == ValueToString(data)
           p == parse_input(msg)
       IN \E u \in FreshUuids(p) :
            Advance(msg, Some([parent |-> parsed[1].v, data |-> data]), p, <<>>, <<>>, u)

\* the caller drops the response: nothing of the invocation is kept
Discard ==
    /\ pc = "idle"
    /\ response # None
    /\ pc' = "idle"
    /\ message' = Text(JNull)
    /\ origin' = None
    /\ parsed' = None
    /\ uuid' = None
    /\ calls' = <<>>
    /\ rets' = <<>>
    /\ result' = None
    /\ response' = None
    /\ peer' = peer

\* the invocation goes on with the broker's answer r to its pending call
Resume(r) ==
    \E u \in (IF uuid # None THEN {uuid[1]} ELSE FreshUuids(parsed[1])) :
        Advance(message, origin, parsed[1], calls, Append(rets, r), u)

\* a new invocation starts only when the last response is gone
Request == pc = "idle" /\ response = None /\ \E msg \in Messages : Invoke(msg)

FollowUp == pc = "idle" /\ \E i \in DOMAIN ResponseActions : Resubmit(i)

GetTokenReturns == pc = "get_token" /\ \E r \in GetTokenAnswers : Resume(r)

GetConsentUrlReturns == pc = "get_consent_url" /\ \E r \in GetConsentUrlAnswers : Resume(r)

ExchangeCodeReturns == pc = "exchange_code" /\ \E r \in ExchangeCodeAnswers : Resume(r)

Next ==
    \/ Request
    \/ FollowUp
    \/ Discard
    \/ GetTokenReturns
    \/ GetConsentUrlReturns
    \/ ExchangeCodeReturns

Spec == Init /\ [][Next]_vars

----------------------------------------------------------------------------
(* Two invocations in flight at once.  Each handle_message call builds its   *)
(* own backend and its own locals (lib.rs 140-144): the second invocation    *)
(* keeps its locals in peer and runs the same code, its broker calls         *)
(* answered in any order relative to the first one's.                        *)

\* the texts the two invocations are given: every mode, with and without
\* state_id and allow_auto_sign_in, and a text that is not JSON
ParMessages ==
    { [pad |-> FALSE,
       body |-> Some(JObj(ObjectOf(
           [ mode |-> Some(JStr(n)), provider_id |-> Some(JStr("msgraph")),
             subject |-> Some(JStr("user-1")), tenant |-> None, team |-> None,
             scopes |-> None, state_id |-> sid, auth_code |-> Some(JStr("code-123")),
             allow_auto_sign_in |-> auto, redirect_path |-> None,
             extra_json |-> None ])))] :
        n \in ModeNames, sid \in {None, Some(JStr("state-1"))},
        auto \in {None, Some(JBool(TRUE))} }
    \cup {[pad |-> FALSE, body |-> None]}

\* what the broker can answer to the operation op
BrokerAnswers(op) ==
    CASE op = "get_token" -> GetTokenAnswers
      [] op = "get_consent_url" -> GetConsentUrlAnswers
      [] op = "exchange_code" -> ExchangeCodeAnswers

\* the second invocation on msg runs up to its next broker call or its return
PeerAdvance(msg, p, cs, rs, u) ==
    LET next == handle_message(p, rs, u)
    IN /\ peer' = [ pc |-> next.pc, message |-> msg, parsed |-> Some(p),
                    uuid |-> next.uuid, calls |-> cs \o next.call, rets |-> rs,
                    result |-> next.result, response |-> next.response ]
       /\ UNCHANGED <<pc, message, origin, parsed, uuid, calls, rets, result, response>>

RequestPar == pc = "idle" /\ response = None /\ \E msg \in ParMessages : Invoke(msg)

PeerRequest ==
    /\ peer.pc = "idle"
    /\ peer.response = None
    /\ \E msg \in ParMessages :
         LET p == parse_input(msg)
         IN \E u \in FreshUuids(p) : PeerAdvance(msg, p, <<>>, <<>>, u)

PeerReturns ==
    /\ peer.pc # "idle"
    /\ \E r \in BrokerAnswers(peer.pc) :
         \E u \in (IF peer.uuid # None THEN {peer.uuid[1]} ELSE FreshUuids(peer.parsed[1])) :
            PeerAdvance(peer.message, peer.parsed[1], peer.calls, Append(peer.rets, r), u)

PeerDiscard ==
    /\ peer.pc = "idle"
    /\ peer.response # None
    /\ peer' = IdleInvocation
    /\ UNCHANGED <<pc, message, origin, parsed, uuid, calls, rets, result, response>>

NextPar ==
    \/ RequestPar
    \/ Discard
    \/ GetTokenReturns
    \/ GetConsentUrlReturns
    \/ ExchangeCodeReturns
    \/ PeerRequest
    \/ PeerReturns
    \/ PeerDiscard

SpecPar == Init /\ [][NextPar]_vars

----------------------------------------------------------------------------
(* What the properties below read                                            *)

\* handle_message has returned
Returned == pc = "idle" /\ response # None

\* the object the response text spells
ResponseObject == response[1].body[1].o

\* the key k of the object o is missing or null
Absent(o, k) == k \notin DOMAIN o \/ o[k] = JNull

\* the decoded request of the invocation
Request_ == parsed[1].v

Decoded == parsed # None /\ parsed[1].ok

\* the indexes of the answered broker calls that failed
FailedCalls(ops) == {i \in DOMAIN rets : calls[i].op \in ops /\ ~rets[i].ok}

ArtifactKeys == {"card", "auth_context", "auth_header", "state_id"}

----------------------------------------------------------------------------
(* C1: in every response of handle_message the error field is populated      *)
(* only when status is error, a response with status error has no card,      *)
(* auth_context, auth_header or state_id, and every Ok result of handle has  *)
(* status Ok or NeedsSignIn and no error.                                    *)
C1_ErrorOnlyWithErrorStatus ==
    Returned =>
        /\ ~Absent(ResponseObject, "error") => ResponseObject["status"] = JStr("error")
        /\ ResponseObject["status"] = JStr("error") =>
               \A k \in ArtifactKeys : Absent(ResponseObject, k)
        /\ result[1].ok =>
               result[1].v.status \in {"Ok", "NeedsSignIn"} /\ result[1].v.error = None

C1_Witness ==
    /\ Returned
    /\ ~result[1].ok
    /\ ResponseObject["status"] = JStr("error")
    /\ ResponseObject["error"].t = "str"

(* C2: when get_token or exchange_code fails, handle fails with that very    *)
(* error, no further broker call is made, and the response has status        *)
(* error, the error's message, and no card, auth_context, auth_header or     *)
(* state_id.                                                                 *)
C2_BrokerErrorPropagates ==
    \A i \in FailedCalls({"get_token", "exchange_code"}) :
        /\ Len(calls) = i
        /\ Returned
        /\ result[1] = Err(rets[i].e)
        /\ ResponseObject["status"] = JStr("error")
        /\ ResponseObject["error"] = JStr(ErrToString(rets[i].e))
        /\ \A k \in ArtifactKeys : Absent(ResponseObject, k)

C2_Witness ==
    /\ Returned
    /\ FailedCalls({"exchange_code"}) # {}
    /\ ResponseObject["error"] = JStr("unsupported: exchange_code unavailable on native test backend")

\* the OpenUrl actions of a card
OpenUrlActions(card) == {i \in DOMAIN card.actions : card.actions[i].variant = "OpenUrl"}

\* the PostBack actions of a card that carry the title
PostBackActions(card, title) ==
    {i \in DOMAIN card.actions :
        card.actions[i].variant = "PostBack" /\ card.actions[i].title = title}

(* C3: when get_consent_url fails, handle does not fail: the response has    *)
(* the status of the mode (Ok for StartSignIn, NeedsSignIn for EnsureToken), *)
(* a top-level state_id and a sign-in card with no OpenUrl action, no        *)
(* oauth.start_url, and its Continue PostBack action.                        *)
C3_ConsentFailureRecovered ==
    Returned /\ FailedCalls({"get_consent_url"}) # {} =>
        /\ result[1].ok
        /\ result[1].v.status =
               (IF Request_.mode = "StartSignIn" THEN "Ok" ELSE "NeedsSignIn")
        /\ result[1].v.state_id # None
        /\ result[1].v.card # None
        /\ LET card == result[1].v.card[1]
           IN /\ OpenUrlActions(card) = {}
              /\ card.oauth[1].start_url = None
              /\ PostBackActions(card, "Continue") # {}
              /\ card.title = Some("Connect " \o Request_.provider_id \o " account")
        /\ ResponseObject["status"] \in {JStr("ok"), JStr("needs-sign-in")}
        /\ "start_url" \notin DOMAIN ResponseObject["card"].o["oauth"].o

C3_Witness ==
    /\ Returned
    /\ FailedCalls({"get_consent_url"}) # {}
    /\ Request_.mode = "EnsureToken"
    /\ result[1].v.status = "NeedsSignIn"

(* C4: a CompleteSignIn request without auth_code fails with an Invalid      *)
(* error and no broker operation is called in that invocation.               *)
C4_MissingAuthCodeIsInvalid ==
    Decoded /\ Request_.mode = "CompleteSignIn" /\ Request_.auth_code = None =>
        /\ calls = <<>>
        /\ Returned
        /\ ~result[1].ok
        /\ result[1].e.kind = "Invalid"

C4_Witness ==
    /\ Decoded
    /\ Request_.mode = "CompleteSignIn"
    /\ Request_.auth_code = None
    /\ Request_.state_id # None
    /\ Returned

\* a text that spells a Response object with one of the three statuses
WellFormedResponse(t) ==
    /\ ~t.pad
    /\ t.body # None
    /\ t.body[1].t = "obj"
    /\ "status" \in DOMAIN t.body[1].o
    /\ t.body[1].o["status"] \in {JStr("ok"), JStr("needs-sign-in"), JStr("error")}

\* the answers the broker can give to the pending call
PendingAnswers ==
    CASE pc = "get_token" -> GetTokenAnswers
      [] pc = "get_consent_url" -> GetConsentUrlAnswers
      [] pc = "exchange_code" -> ExchangeCodeAnswers
      [] OTHER -> {}

\* handle_message has returned a well-formed Response text, or waits on a broker call
ReturnsOrCalls(next) ==
    IF next.pc = "idle"
    THEN next.response # None /\ WellFormedResponse(next.response[1])
    ELSE next.pc \in {"get_token", "get_consent_url", "exchange_code"}

(* C5: handle_message is total: every text starts an invocation, every       *)
(* broker answer lets it go on, and it returns a well-formed Response text   *)
(* with status ok, needs-sign-in or error; a text that does not decode       *)
(* gives status error with the decoder's message and reaches no broker.      *)
C5_HandleMessageTotal ==
    /\ pc \in {"idle", "get_token", "get_consent_url", "exchange_code"}
    /\ pc = "idle" /\ response = None =>
           \A msg \in Messages : \A u \in Uuids :
               ReturnsOrCalls(handle_message(parse_input(msg), <<>>, u))
    /\ pc # "idle" =>
           \A r \in PendingAnswers : \A u \in Uuids :
               ReturnsOrCalls(handle_message(parsed[1], Append(rets, r), u))
    /\ pc = "idle" /\ parsed # None => Returned /\ WellFormedResponse(response[1])
    /\ pc = "idle" /\ parsed # None /\ ~parsed[1].ok =>
           /\ calls = <<>>
           /\ ResponseObject["status"] = JStr("error")
           /\ ResponseObject["error"] = JStr("parse error: " \o parsed[1].e.msg)

C5_Witness ==
    /\ Returned
    /\ message.body = None
    /\ ResponseObject["status"] = JStr("error")


\* the output of handle, when it returned one
Output == result[1].v

(* C6: in mode StatusCard the outcome follows get_token's answer: with a     *)
(* token, status Ok, the connected card, auth_context and auth_header, no    *)
(* state_id; with no token, status NeedsSignIn and a sign-in card with no    *)
(* OpenUrl action and no start_url, no auth_context, auth_header or          *)
(* top-level state_id, the Continue PostBack data carrying a state_id.       *)
C6_StatusCardOutcome ==
    Returned /\ Decoded /\ Request_.mode = "StatusCard" /\ rets # <<>> /\ rets[1].ok =>
        /\ Len(calls) = 1 /\ calls[1].op = "get_token"
        /\ result[1].ok
        /\ Output.card # None
        /\ IF rets[1].v # None
           THEN /\ Output.status = "Ok"
                /\ Output.card[1].title = Some("Connected: " \o Request_.provider_id)
                /\ Output.auth_context # None
                /\ Output.auth_header # None
                /\ Output.state_id = None
                /\ ResponseObject["status"] = JStr("ok")
           ELSE /\ Output.status = "NeedsSignIn"
                /\ OpenUrlActions(Output.card[1]) = {}
                /\ Output.card[1].oauth[1].start_url = None
                /\ Output.auth_context = None
                /\ Output.auth_header = None
                /\ Output.state_id = None
                /\ PostBackActions(Output.card[1], "Continue") # {}
                /\ \A i \in PostBackActions(Output.card[1], "Continue") :
                       Output.card[1].actions[i].data.o["state_id"].t = "str"
                /\ ResponseObject["status"] = JStr("needs-sign-in")
                /\ \A k \in {"auth_context", "auth_header", "state_id"} :
                       Absent(ResponseObject, k)

C6_Witness ==
    /\ Returned /\ Decoded
    /\ Request_.mode = "StatusCard"
    /\ rets = <<Ok(None)>>
    /\ Request_.state_id # None
    /\ Output.status = "NeedsSignIn"

(* C7: in mode StartSignIn the response has status Ok, a card, no            *)
(* auth_context or auth_header, and a top-level state_id: the request's when *)
(* it gave one, else the id new_v4 yielded; the Continue PostBack data       *)
(* (mode complete-sign-in) and the oauth metadata carry that same id.        *)
C7_StartSignInStateId ==
    Returned /\ Decoded /\ Request_.mode = "StartSignIn" =>
        /\ result[1].ok
        /\ Output.status = "Ok"
        /\ Output.card # None
        /\ Output.auth_context = None
        /\ Output.auth_header = None
        /\ Output.state_id # None
        /\ IF Request_.state_id # None
           THEN Output.state_id = Request_.state_id
           ELSE Output.state_id = uuid /\ Output.state_id[1] \in Uuids
        /\ PostBackActions(Output.card[1], "Continue") # {}
        /\ \A i \in PostBackActions(Output.card[1], "Continue") :
               /\ Output.card[1].actions[i].data.o["mode"] = JStr("complete-sign-in")
               /\ Output.card[1].actions[i].data.o["state_id"] = JStr(Output.state_id[1])
        /\ Output.card[1].oauth[1].metadata[1].o["state_id"] = JStr(Output.state_id[1])
        /\ ResponseObject["state_id"] = JStr(Output.state_id[1])

C7_Witness ==
    /\ Returned /\ Decoded
    /\ Request_.mode = "StartSignIn"
    /\ Request_.state_id = Some("state-1")
    /\ Output.state_id = Some("state-1")

\* EnsureToken returned after get_token answered without failing
EnsureTokenAnswered ==
    Returned /\ Decoded /\ Request_.mode = "EnsureToken" /\ rets # <<>> /\ rets[1].ok

\* the two branches of EnsureToken that build no sign-in card
EnsureTokenNoPrompt ==
    /\ rets[1].v # None =>
           /\ Output.status = "Ok"
           /\ Output.auth_context # None
           /\ Output.auth_header # None
           /\ Output.card = None
           /\ Output.state_id = None
    /\ rets[1].v = None /\ ~Request_.allow_auto_sign_in =>
           /\ Output.status = "NeedsSignIn"
           /\ Output.card = None
           /\ Output.state_id = None
           /\ Output.auth_context = None
           /\ Output.auth_header = None

(* C8, as stated: in mode EnsureToken, with no token and allow_auto_sign_in  *)
(* the sign-in card's oauth.start_url equals the consent URL the broker      *)
(* returned.                                                                 *)
C8_StartUrlIsReturnedUrl ==
    EnsureTokenAnswered =>
        /\ result[1].ok
        /\ EnsureTokenNoPrompt
        /\ rets[1].v = None /\ Request_.allow_auto_sign_in =>
               /\ Output.status = "NeedsSignIn"
               /\ Output.card # None
               /\ Output.state_id # None
               /\ rets[2].ok => Output.card[1].oauth[1].start_url = Some(rets[2].v)

(* C8, amended: in mode EnsureToken, a token gives status Ok with            *)
(* auth_context and auth_header, no card, no state_id; no token with         *)
(* allow_auto_sign_in gives status NeedsSignIn, a top-level state_id and a   *)
(* sign-in card whose oauth.start_url is the consent URL the broker returned *)
(* when that URL is not empty, and is absent when the URL is empty or the    *)
(* broker failed; no token without allow_auto_sign_in gives status           *)
(* NeedsSignIn and nothing else.                                             *)
C8_EnsureTokenOutcome ==
    EnsureTokenAnswered =>
        /\ result[1].ok
        /\ EnsureTokenNoPrompt
        /\ rets[1].v = None /\ Request_.allow_auto_sign_in =>
               /\ Output.status = "NeedsSignIn"
               /\ Output.card # None
               /\ Output.state_id # None
               /\ Output.card[1].oauth[1].start_url =
                      (IF rets[2].ok /\ rets[2].v # "" THEN Some(rets[2].v) ELSE None)

C8_Witness ==
    /\ EnsureTokenAnswered
    /\ rets = <<Ok(None), Ok("https://consent/start")>>
    /\ Output.card[1].oauth[1].start_url = Some("https://consent/start")
    /\ Output.status = "NeedsSignIn"

(* C9, as stated: an invocation makes at most one broker call.               *)
C9_AtMostOneBrokerCall == Len(calls) <= 1

(* C9, amended: an invocation makes at most two broker calls, and two only   *)
(* in mode EnsureToken with allow_auto_sign_in, get_token first, answered    *)
(* with no token, then get_consent_url; every other mode makes at most one,  *)
(* Disconnect none.                                                          *)
C9_AtMostTwoBrokerCalls ==
    /\ Len(calls) <= 2
    /\ Len(rets) <= Len(calls)
    /\ Len(calls) = 2 =>
           /\ Request_.mode = "EnsureToken"
           /\ Request_.allow_auto_sign_in
           /\ calls[1].op = "get_token"
           /\ rets[1] = Ok(None)
           /\ calls[2].op = "get_consent_url"
    /\ Decoded /\ Request_.mode = "Disconnect" => calls = <<>>

C9_Witness ==
    /\ Returned
    /\ Len(calls) = 2
    /\ Len(rets) = 2

\* the invocation is the follow-up of a PostBack action
IsFollowUp == origin # None

\* the follow-up request is the one the action's data describes
FollowUpDecodes ==
    /\ Decoded
    /\ Request_.provider_id = origin[1].parent.provider_id
    /\ Request_.subject = origin[1].parent.subject
    /\ Request_.scopes = origin[1].parent.scopes
    /\ JStr(ModeName(Request_.mode)) = origin[1].data.o["mode"]

(* C10, as stated: the data of every PostBack action, submitted unchanged,   *)
(* decodes to a request with the same provider_id, subject and scopes and    *)
(* the action's mode, and is handled without an Invalid or Parse error.      *)
C10_FollowUpNeverInvalid ==
    IsFollowUp =>
        /\ FollowUpDecodes
        /\ Returned /\ ~result[1].ok => result[1].e.kind \notin {"Invalid", "Parse"}

(* C10, amended: the data of every PostBack action, submitted unchanged,     *)
(* decodes to a request with the same provider_id, subject and scopes and    *)
(* the action's mode, along any chain of follow-ups.  For Refresh token,     *)
(* Use different account, Disconnect and Reconnect the Flow Engine raises no *)
(* error of its own: a failure is the broker's.  The data of Continue has    *)
(* no auth_code: submitted unchanged it is rejected with Invalid before any  *)
(* broker call.                                                              *)
C10_FollowUpDecodes ==
    IsFollowUp =>
        /\ FollowUpDecodes
        /\ Returned =>
               IF Request_.mode = "CompleteSignIn"
               THEN /\ calls = <<>>
                    /\ result[1] = Err(Invalid("auth_code is required to complete sign-in"))
               ELSE \/ result[1].ok
                    \/ /\ rets # <<>>
                       /\ ~rets[Len(rets)].ok
                       /\ result[1] = Err(rets[Len(rets)].e)

C10_Witness ==
    /\ IsFollowUp
    /\ Returned
    /\ origin[1].parent.mode = "Disconnect"
    /\ origin[1].parent.scopes # <<>>
    /\ Request_.mode = "StartSignIn"
    /\ result[1].ok

\* the PostBack titles and data modes of a card's actions, in order
ActionModes(card) ==
    [ i \in DOMAIN card.actions |->
        IF card.actions[i].variant = "PostBack"
        THEN <<card.actions[i].title, card.actions[i].data.o["mode"]>>
        ELSE <<card.actions[i].title, JNull>> ]

\* exchange_code was called and answered with a token
ExchangeSucceeded ==
    /\ Returned /\ Decoded
    /\ Request_.mode = "CompleteSignIn"
    /\ rets # <<>>
    /\ rets[1].ok

\* the card mode StatusCard returns for the same request fields when the
\* broker holds the token
StatusCardCardFor(input, token) ==
    status_card([input EXCEPT !.mode = "StatusCard"], <<Ok(Some(token))>>, "").res.v.card

(* C11: CompleteSignIn with an auth_code whose exchange_code succeeds        *)
(* returns status Ok, auth_context and auth_header built from the exchanged  *)
(* token, no top-level state_id even when the request carried one, and the   *)
(* connected card StatusCard builds for the same request fields and token:   *)
(* title Connected: provider_id and exactly three PostBack actions, in       *)
(* order Refresh token (ensure-token), Use different account                 *)
(* (start-sign-in), Disconnect (disconnect).                                 *)
C11_CompleteSignInOutcome ==
    ExchangeSucceeded =>
        LET token == rets[1].v
        IN /\ Request_.auth_code # None
           /\ calls = <<[op |-> "exchange_code",
                         args |-> ExchangeCodeArgs(Request_, Request_.auth_code[1])]>>
           /\ result[1].ok
           /\ Output.status = "Ok"
           /\ ResponseObject["status"] = JStr("ok")
           /\ Absent(ResponseObject, "state_id")
           /\ Absent(ResponseObject, "error")
           /\ Output.state_id = None
           /\ Output.auth_context # None
           /\ Output.auth_context[1].provider_id = Request_.provider_id
           /\ Output.auth_context[1].subject = Request_.subject
           /\ Output.auth_context[1].scopes = Request_.scopes
           /\ Output.auth_context[1].expires_at = token.expires_at
           /\ Output.auth_context[1].email = TokenEmail(token)
           /\ Output.auth_header # None
           /\ Len(Output.auth_header[1].headers) = 1
           /\ Output.card # None
           /\ Output.card = StatusCardCardFor(Request_, token)
           /\ Output.card[1].title = Some("Connected: " \o Request_.provider_id)
           /\ ActionModes(Output.card[1]) =
                  << <<"Refresh token", JStr("ensure-token")>>,
                     <<"Use different account", JStr("start-sign-in")>>,
                     <<"Disconnect", JStr("disconnect")>> >>

C11_Witness ==
    /\ ExchangeSucceeded
    /\ Request_.state_id = Some("state-1")
    /\ Request_.provider_id = "msgraph"
    /\ rets[1].v.access_token = "tok-2"
    /\ ResponseObject["card"].o["title"] = JStr("Connected: msgraph")

(* C12: Disconnect makes no broker call and always returns status Ok, no     *)
(* auth_context, auth_header or state_id, and a card titled Disconnected     *)
(* from provider_id with exactly one action, the PostBack Reconnect whose    *)
(* data.mode is start-sign-in, whatever the broker answered about the        *)
(* subject's token before.                                                   *)
C12_DisconnectOutcome ==
    Decoded /\ Request_.mode = "Disconnect" =>
        /\ Returned
        /\ calls = <<>> /\ rets = <<>>
        /\ result[1].ok
        /\ Output.status = "Ok"
        /\ ResponseObject["status"] = JStr("ok")
        /\ \A k \in {"auth_context", "auth_header", "state_id", "error"} :
               Absent(ResponseObject, k)
        /\ Output.card # None
        /\ Output.card[1].title = Some("Disconnected from " \o Request_.provider_id)
        /\ ActionModes(Output.card[1]) = << <<"Reconnect", JStr("start-sign-in")>> >>
        /\ Output.card[1].actions[1].variant = "PostBack"
        /\ ResponseObject["card"].o["title"] =
               JStr("Disconnected from " \o Request_.provider_id)
        /\ Len(ResponseObject["card"].o["actions"].a) = 1

\* Disconnect requested from the connected card, which was built for a
\* token the broker holds
C12_Witness ==
    /\ Returned /\ Decoded
    /\ Request_.mode = "Disconnect"
    /\ IsFollowUp
    /\ origin[1].parent.mode = "StatusCard"
    /\ Request_.provider_id = "msgraph"
    /\ ResponseObject["card"].o["title"] = JStr("Disconnected from msgraph")

\* the text spells a JSON object: its structural encoding is well formed
WellFormedEncoding == message.body # None /\ message.body[1].t = "obj"

\* the key k of the request object is missing, null or the empty string
MissingOrEmpty(k) ==
    LET o == message.body[1].o
    IN k \notin DOMAIN o \/ o[k] \in {JNull, JStr("")}

\* parse_input rejected the text
Rejected == parsed # None /\ ~parsed[1].ok

(* C13, as stated: the Request Decoder rejects a structurally well-formed    *)
(* input whose provider_id or subject is missing or empty with an Invalid    *)
(* error, reports Parse only for a malformed structural encoding, and a      *)
(* rejected request never reaches the Flow Engine or the broker.             *)
C13_MissingOrEmptyIsInvalid ==
    parsed # None =>
        /\ WellFormedEncoding /\ (MissingOrEmpty("provider_id") \/ MissingOrEmpty("subject")) =>
               Rejected /\ parsed[1].e.kind = "Invalid"
        /\ Rejected /\ parsed[1].e.kind = "Parse" => ~WellFormedEncoding
        /\ Rejected => calls = <<>> /\ Returned /\ result = Some(Err(parsed[1].e))

\* the token the invocation obtained from the broker, as an Option
ObtainedToken ==
    IF rets = <<>> \/ ~rets[1].ok THEN None
    ELSE IF calls[1].op = "get_token" THEN rets[1].v
    ELSE IF calls[1].op = "exchange_code" THEN Some(rets[1].v)
    ELSE None

\* the value the Authorization header must have for the token
AuthorizationValue(token) ==
    CASE token.token_type = None -> "Bearer " \o token.access_token
      [] OTHER -> token.token_type[1] \o " " \o token.access_token

(* C15: whenever a response carries auth_header, the invocation obtained a   *)
(* token (StatusCard or EnsureToken with a token, CompleteSignIn exchanged)  *)
(* and the header has exactly one pair, named Authorization, whose value is  *)
(* the prefix, a space and the access_token, the prefix being the token's    *)
(* token_type when present and Bearer otherwise.                             *)
C15_AuthHeaderShape ==
    Returned /\ ~Absent(ResponseObject, "auth_header") =>
        /\ Decoded
        /\ Request_.mode \in {"StatusCard", "EnsureToken", "CompleteSignIn"}
        /\ ObtainedToken # None
        /\ LET token == ObtainedToken[1]
           IN /\ Output.auth_header =
                     Some([headers |-> << <<"Authorization", AuthorizationValue(token)>> >>])
              /\ ResponseObject["auth_header"] =
                     JObj([headers |-> JArr(<< JArr(<< JStr("Authorization"),
                                                      JStr(AuthorizationValue(token)) >>) >>)])
              /\ token.access_token = "token123" =>
                     Output.auth_header[1].headers[1][2] = "Bearer token123"

C15_Witness ==
    /\ Returned
    /\ ~Absent(ResponseObject, "auth_header")
    /\ Request_.mode = "EnsureToken"
    /\ Output.auth_header[1].headers = << <<"Authorization", "MAC tok-2">> >>

\* the broker operations that take a redirect path
RedirectOps == {"get_consent_url", "exchange_code"}

\* the redirect path the request resolves to
ResolvedRedirectPath ==
    IF Request_.redirect_path # None THEN Request_.redirect_path[1]
    ELSE "/oauth/callback/" \o Request_.provider_id

(* C16: in every broker call that takes a redirect path (get_consent_url in  *)
(* StartSignIn and in EnsureToken's auto-sign-in branch, exchange_code in    *)
(* CompleteSignIn) the redirect_path argument is the request's redirect_path *)
(* when given and /oauth/callback/ followed by provider_id otherwise, and    *)
(* the provider_id, subject and scopes arguments are the request's           *)
(* (exchange_code takes no scopes).                                          *)
C16_RedirectPathArgument ==
    \A i \in DOMAIN calls :
        calls[i].op \in RedirectOps =>
            /\ calls[i].args.redirect_path = ResolvedRedirectPath
            /\ calls[i].args.provider_id = Request_.provider_id
            /\ calls[i].args.subject = Request_.subject
            /\ "scopes" \in DOMAIN calls[i].args => calls[i].args.scopes = Request_.scopes
            /\ calls[i].op = "get_consent_url" =>
                   /\ "scopes" \in DOMAIN calls[i].args
                   /\ Request_.mode \in {"StartSignIn", "EnsureToken"}
            /\ calls[i].op = "exchange_code" =>
                   /\ Request_.mode = "CompleteSignIn"
                   /\ calls[i].args.code = Request_.auth_code[1]

\* get_consent_url called in EnsureToken with the path the request gives
C16_Witness ==
    /\ Len(calls) = 2
    /\ calls[2].op = "get_consent_url"
    /\ Request_.redirect_path = Some("/cb")
    /\ calls[2].args.redirect_path = "/cb"
    /\ calls[2].args.scopes = <<"openid">>

\* exchange_code called with the default path of provider msgraph
C16_DefaultPathUsed ==
    /\ Len(calls) = 1
    /\ calls[1].op = "exchange_code"
    /\ Request_.redirect_path = None
    /\ calls[1].args.redirect_path = "/oauth/callback/msgraph"

\* the indexes of the calls to get_consent_url
ConsentCalls == {i \in DOMAIN calls : calls[i].op = "get_consent_url"}

(* C17: get_consent_url is invoked only in StartSignIn, as its only call,    *)
(* and in EnsureToken strictly after get_token returned Ok with no token     *)
(* and only when allow_auto_sign_in is true; never in StatusCard,            *)
(* CompleteSignIn or Disconnect, nor in EnsureToken when a token exists,     *)
(* get_token failed or allow_auto_sign_in is false.  A response carries a    *)
(* top-level state_id exactly when get_consent_url was invoked.              *)
C17_ConsentUrlOnlyWhenSigningIn ==
    /\ \A i \in ConsentCalls :
           \/ /\ Request_.mode = "StartSignIn"
              /\ i = 1
              /\ Len(calls) = 1
           \/ /\ Request_.mode = "EnsureToken"
              /\ i = 2
              /\ calls[1].op = "get_token"
              /\ Len(rets) >= 1
              /\ rets[1] = Ok(None)
              /\ Request_.allow_auto_sign_in
    /\ Decoded /\ Request_.mode = "StartSignIn" /\ pc # "idle" => ConsentCalls = {1}
    /\ Returned =>
           /\ ConsentCalls # {} <=> ~Absent(ResponseObject, "state_id")
           /\ Decoded /\ Request_.mode = "StartSignIn" => ConsentCalls = {1}
           /\ /\ Decoded
              /\ Request_.mode = "EnsureToken"
              /\ rets # <<>>
              /\ rets[1] = Ok(None)
              /\ Request_.allow_auto_sign_in
              => ConsentCalls = {2}

\* EnsureToken with auto sign-in, no token: the second call is
\* get_consent_url and the response carries the request's state_id
C17_Witness ==
    /\ Returned /\ Decoded
    /\ ConsentCalls = {2}
    /\ Request_.mode = "EnsureToken"
    /\ rets[1] = Ok(None)
    /\ ResponseObject["state_id"] = JStr("state-1")

\* the response carries a sign-in card: a card with the Continue action
HasSignInCard ==
    /\ Returned /\ Decoded
    /\ result[1].ok
    /\ Output.card # None
    /\ PostBackActions(Output.card[1], "Continue") # {}

\* the state_id in the data of the card's Continue action
ContinueStateId ==
    LET card == Output.card[1]
        i == CHOOSE j \in PostBackActions(card, "Continue") : TRUE
    IN card.actions[i].data.o["state_id"]

\* the state_id in the card's oauth metadata
MetadataStateId == Output.card[1].oauth[1].metadata[1].o["state_id"]

(* C18: the state_id embedded in a sign-in card is the same in the Continue  *)
(* PostBack data and in the oauth metadata.  In StatusCard's no-token branch *)
(* it is the id new_v4 generated for this invocation even when the request   *)
(* supplied a state_id, which is never reused in this mode; StartSignIn and  *)
(* EnsureToken's auto-sign-in branch embed the request's state_id when it    *)
(* is given and generate one only when it is not.                            *)
C18_StatusCardStateIdIsNew ==
    HasSignInCard =>
        /\ Cardinality(PostBackActions(Output.card[1], "Continue")) = 1
        /\ ContinueStateId = MetadataStateId
        /\ Request_.mode \in {"StatusCard", "StartSignIn", "EnsureToken"}
        /\ IF Request_.mode = "StatusCard"
           THEN /\ rets = <<Ok(None)>>
                /\ uuid # None
                /\ uuid[1] \in Uuids
                /\ ContinueStateId = JStr(uuid[1])
                /\ Request_.state_id # None =>
                       ContinueStateId # JStr(Request_.state_id[1])
           ELSE IF Request_.state_id # None
                THEN /\ uuid = None
                     /\ ContinueStateId = JStr(Request_.state_id[1])
                ELSE /\ uuid # None
                     /\ ContinueStateId = JStr(uuid[1])

\* StatusCard, no token, the request carrying state-1: the card carries the
\* generated id
C18_Witness ==
    /\ HasSignInCard
    /\ Request_.mode = "StatusCard"
    /\ Request_.state_id = Some("state-1")
    /\ ContinueStateId = JStr("uuid-1")
    /\ MetadataStateId = JStr("uuid-1")

\* the locals of the first invocation, in the shape of peer
Main ==
    [ pc |-> pc, message |-> message, parsed |-> parsed, uuid |-> uuid,
      calls |-> calls, rets |-> rets, result |-> result, response |-> response ]

Invocations == {Main, peer}

HasReturned(v) == v.pc = "idle" /\ v.response # None

\* the invocation on the text msg run by itself, the broker answering rs in
\* order and new_v4 yielding u
RunAlone(msg, rs, u) == handle_message(parse_input(msg), rs, u)

\* the ids new_v4 may have yielded to the invocation: the one it drew, any if
\* it drew none
IdsOf(v) == IF v.uuid # None THEN {v.uuid[1]} ELSE Uuids

\* once started, the invocation has made the calls and returned the response
\* it makes and returns when run alone on its text with its answers
AsRunAlone(v) ==
    v.parsed # None =>
    \A u \in IdsOf(v) :
        /\ RunAlone(v.message, v.rets, u).response = v.response
        /\ \A k \in DOMAIN v.calls :
               RunAlone(v.message, SubSeq(v.rets, 1, k - 1), u).call = <<v.calls[k]>>

\* two returned invocations had equal requests and equal broker answers
EqualRequestsAndAnswers(v, w) ==
    /\ HasReturned(v) /\ HasReturned(w)
    /\ v.parsed = w.parsed
    /\ v.rets = w.rets

SuppliesStateId(v) == v.parsed[1].ok /\ v.parsed[1].v.state_id # None

\* the invocation went through StatusCard's no-token branch
StatusCardNoToken(v) ==
    v.parsed[1].ok /\ v.parsed[1].v.mode = "StatusCard" /\ v.rets = <<Ok(None)>>

(* C14, as stated: whatever ran before or runs at the same time, every       *)
(* invocation makes the calls and returns the response it makes and returns  *)
(* when run alone, and when the request supplies state_id two invocations    *)
(* with equal requests and equal broker answers return equal responses.      *)
C14_EqualRequestsEqualResponses ==
    \A v \in Invocations :
        /\ AsRunAlone(v)
        /\ \A w \in Invocations :
               EqualRequestsAndAnswers(v, w) /\ SuppliesStateId(v) =>
                   v.response = w.response

(* C14, amended: whatever ran before or runs at the same time, every         *)
(* invocation makes the calls and returns the response it makes and returns  *)
(* when run alone: the response is a function of its request, of the         *)
(* broker's answers to its calls and of the id it generated, if any.  When   *)
(* the request supplies state_id and the invocation is not StatusCard's      *)
(* no-token branch, no id is generated and two invocations with equal        *)
(* requests and equal broker answers return equal responses; in StatusCard's *)
(* no-token branch an id is generated even then, and the two responses are   *)
(* equal only when the generated ids are.                                    *)
C14_ResponseIsFunctionOfRequest ==
    \A v \in Invocations :
        /\ AsRunAlone(v)
        /\ HasReturned(v) /\ SuppliesStateId(v) =>
               (v.uuid # None <=> StatusCardNoToken(v))
        /\ \A w \in Invocations :
               EqualRequestsAndAnswers(v, w) =>
                   /\ v.uuid = w.uuid => v.response = w.response
                   /\ SuppliesStateId(v) /\ ~StatusCardNoToken(v) => v.response = w.response
                   /\ StatusCardNoToken(v) => (v.response = w.response <=> v.uuid = w.uuid)

\* two invocations of EnsureToken with state-1, both answered no token and
\* then a consent URL, have returned the same response
C14_Witness ==
    /\ EqualRequestsAndAnswers(Main, peer)
    /\ SuppliesStateId(peer)
    /\ peer.parsed[1].v.mode = "EnsureToken"
    /\ Len(peer.rets) = 2
    /\ peer.rets[2] = Ok("https://consent/start")
    /\ peer.response = response
    /\ ResponseObject["state_id"] = JStr("state-1")

====
